---- MODULE Spec2Model ----
(***************************************************************************)
(* pg_webtransport: a WebTransport <-> TCP relay server and a Postgres     *)
(* wire-protocol client that runs over one bidirectional stream.           *)
(*                                                                         *)
(* Spec        one spawned connection task of the relay server:            *)
(*             Session::start, Session::accept_bidirectional, Proxy::start *)
(*             (tokio::io::copy_bidirectional), with the stream peer and   *)
(*             the upstream TCP peer as environment.                       *)
(* ClientSpec  the client's Startup::start and sasl over one Connection    *)
(*             (decode, decode_pending), with the backend as environment.  *)
(* TunnelSpec  the client's handshake on the stream the connection task    *)
(*             accepted, the backend being the upstream TCP peer.          *)
(* ServerSpec  the endpoint's accept loop and the tasks it spawns, one per *)
(*             connection attempt.                                         *)
(* StartupSpec the startup message Startup::start builds from its params.  *)
(* AuthSpec    the client entry point run() of lib.rs and its authenticate *)
(*             and read_session_info, with the backend as environment.     *)
(***************************************************************************)
EXTENDS Integers, Sequences, FiniteSets, TLC

(***************************************************************************)
(* Bounds of the model.                                                    *)
(***************************************************************************)
\* most bytes either peer of a relay sends before it closes its write side
MaxSend == 2

\* the opaque payload bytes a peer may send
PayloadBytes == {7, 9}

(***************************************************************************)
(* Generic helpers on byte sequences.                                      *)
(***************************************************************************)
IsPrefix(s, t) == Len(s) <= Len(t) /\ SubSeq(t, 1, Len(s)) = s

Drop(s, n) == SubSeq(s, n + 1, Len(s))

Take(s, n) == SubSeq(s, 1, n)

(***************************************************************************)
(* Relay server state (one connection task).                               *)
(***************************************************************************)
VARIABLES
    task,            \* position of the spawned connection task
    outcome,         \* how the task ended: "none", "Ok", "panic" or an error text
    request,         \* first HTTP/3 request of the connection, NoRequest before it
    h3Accepts,       \* calls of h3.accept() that resolved
    sessionAccepts,  \* calls of WebTransportSession::accept
    accepted,        \* what session.accept_bi() resolved to, "none" before it
    tcpConnects,     \* calls of TcpStream::connect
    sent,            \* per side: bytes that peer has sent to the server
    closed,          \* per side: that peer has closed its write side
    written,         \* per side: bytes the server has written to it
    transfer,        \* copy_bidirectional: TransferState of a_to_b and b_to_a
    unreadAtHalfClose \* TCP bytes in flight when the stream peer closed its write side

relayVars == <<task, outcome, request, h3Accepts, sessionAccepts, accepted,
               tcpConnects, sent, closed, written, transfer, unreadAtHalfClose>>

negotiationVars == <<request, h3Accepts, sessionAccepts, accepted>>

peerVars == <<sent, closed>>

copyVars == <<written, transfer, unreadAtHalfClose>>

(***************************************************************************)
(* Client state (one Connection driven by Startup::start).                 *)
(***************************************************************************)
VARIABLES
    pc,       \* position of start / sasl: the await it is suspended at
    dec,      \* decode(): "idle", "reading" (awaiting read()), or how it returned
    pending,  \* Connection.pending
    out,      \* frontend messages whose write has completed, in order
    decoded,  \* messages decode() has returned, in order
    result,   \* what start returned, NoResult before
    eof,      \* a read() has resolved with done (end of stream)
    reassembled, \* a message was returned that arrived in more than one chunk
    script,   \* names of the messages the backend has sent, in order
    wire,     \* bytes the backend has sent that the client has not read yet
    bclosed   \* the backend has closed the stream

clientVars == <<pc, dec, pending, out, decoded, result, eof, reassembled, script, wire,
                bclosed>>

backendVars == <<script, wire, bclosed>>

(***************************************************************************)
(* Server state: the listener and the connection tasks it has spawned.     *)
(***************************************************************************)
VARIABLES
    listening,  \* the endpoint's accept loop is running
    phase,      \* per connection: the await its task is suspended at
    ended,      \* per connection: how its task ended, "none" before
    opened,     \* per connection: bidirectional streams the client has opened
    streams,    \* per connection: bidirectional streams the task has accepted
    upstreams,  \* per connection: upstream TCP connections the task has opened
    copied,     \* per connection: bytes its relay has copied
    survived    \* connections that copied a byte after another task had failed

serverVars == <<listening, phase, ended, opened, streams, upstreams, copied, survived>>

(***************************************************************************)
(* The startup message of one call of Startup::start.                      *)
(***************************************************************************)
VARIABLES
    params,   \* the parameter list passed to start
    startup   \* the result of startup_message(params, &mut buffer)

startupVars == <<params, startup>>

(***************************************************************************)
(* The client entry point run() and its authenticate (src/client/src/lib.rs) *)
(***************************************************************************)
VARIABLES
    authAt,   \* position of run / authenticate: the await it is suspended at
    buffer,   \* bytes left in the buffer of the last read after Message::parse
    parsed,   \* the messages Message::parse has returned, in order
    writes,   \* frontend messages whose write has completed, in order
    session   \* what authenticate returned, NoResult before

authVars == <<authAt, buffer, parsed, writes, session>>

vars == <<relayVars, clientVars, serverVars, startupVars, authVars>>

\* b"hello webtransport!"
Greeting == <<104, 101, 108, 108, 111, 32, 119, 101, 98, 116, 114, 97, 110,
              115, 112, 111, 114, 116, 33>>

NoRequest == [method |-> "none", protocol |-> "none"]

Methods == {"CONNECT", "GET"}

Protocols == {"WEB_TRANSPORT", "CONNECT_UDP", "none"}

\* a = the WebTransport stream, b = the TCP socket
Sides == {"stream", "tcp"}

Dirs == {"a_to_b", "b_to_a"}

Source(d) == IF d = "a_to_b" THEN "stream" ELSE "tcp"

Dest(d) == IF d = "a_to_b" THEN "tcp" ELSE "stream"

\* TransferState::Running(CopyBuffer) at the start of copy_bidirectional
Running == [st |-> "Running", nread |-> 0, buf |-> <<>>, read_done |-> FALSE]

ErrQuic == "connection error"
ErrH3 == "h3 error"
ErrClosed == "Connection closed"
ErrNotConnect == "Request was not a proper CONNECT"
ErrNotWebTransport == "Request was not using the WEB_TRANSPORT protocol"
ErrUnsupportedStream == "Unsupported stream type requested"
ErrStreamWrite == "stream write error"
ErrUpstream == "Failed to connect to upstream TCP target"
ErrDisconnected == "Proxy connection disconnected"

\* the client before start is called, on a fresh Connection
ClientIdle ==
    /\ pc = "start"
    /\ dec = "idle"
    /\ pending = <<>>
    /\ out = <<>>
    /\ decoded = <<>>
    /\ result = [status |-> "none", prefix |-> "", body |-> <<>>]
    /\ eof = FALSE
    /\ reassembled = FALSE
    /\ script = <<>>
    /\ wire = <<>>
    /\ bclosed = FALSE

\* the connection task as tokio::spawn starts it
TaskSpawned ==
    /\ task = "connecting"
    /\ outcome = "none"
    /\ request = NoRequest
    /\ h3Accepts = 0
    /\ sessionAccepts = 0
    /\ accepted = "none"
    /\ tcpConnects = 0
    /\ sent = [s \in Sides |-> <<>>]
    /\ closed = [s \in Sides |-> FALSE]
    /\ written = [s \in Sides |-> <<>>]
    /\ transfer = [d \in Dirs |-> Running]
    /\ unreadAtHalfClose = 0

\* most connection attempts the endpoint yields
NumConns == 2

\* most bidirectional streams a client opens on its session
MaxStreams == 2

\* most bytes one relay copies
MaxCopied == 1

Conns == 1..NumConns

\* the server after Endpoint::listen, before the first connection attempt
ServerIdle ==
    /\ listening = TRUE
    /\ phase = [c \in Conns |-> "unborn"]
    /\ ended = [c \in Conns |-> "none"]
    /\ opened = [c \in Conns |-> 0]
    /\ streams = [c \in Conns |-> 0]
    /\ upstreams = [c \in Conns |-> 0]
    /\ copied = [c \in Conns |-> 0]
    /\ survived = {}

\* nothing was encoded yet
NotEncoded == [ok |-> FALSE, bytes |-> <<>>, done |-> FALSE]

\* before start is called
StartupIdle ==
    /\ params = <<>>
    /\ startup = NotEncoded

\* run() with its stream open and its startup message built, at the write
\* of the startup message
AuthIdle ==
    /\ authAt = "w_startup"
    /\ buffer = <<>>
    /\ parsed = <<>>
    /\ writes = <<>>
    /\ session = [status |-> "none", prefix |-> "", body |-> <<>>]

Init == TaskSpawned /\ ClientIdle /\ ServerIdle /\ StartupIdle /\ AuthIdle

\* the task leaves through `?` (or the end of the async block) with `how`
Finish(how) ==
    /\ task' = "done"
    /\ outcome' = how

(***************************************************************************)
(* Session::start                                                          *)
(***************************************************************************)
\* connecting.await
QuicEstablished ==
    /\ task = "connecting"
    /\ \/ task' = "h3build" /\ UNCHANGED outcome
       \/ Finish(ErrQuic)
    /\ UNCHANGED <<clientVars, serverVars, startupVars, authVars, negotiationVars, tcpConnects, peerVars, copyVars>>

\* sec_http3::server::builder()...build(connection).await
H3Built ==
    /\ task = "h3build"
    /\ \/ task' = "h3accept" /\ UNCHANGED outcome
       \/ Finish(ErrH3)
    /\ UNCHANGED <<clientVars, serverVars, startupVars, authVars, negotiationVars, tcpConnects, peerVars, copyVars>>

\* RequestError without the ensure! on the method
RequestErrorProtocolOnly(req) ==
    IF req.protocol # "WEB_TRANSPORT" THEN ErrNotWebTransport ELSE "none"

\* the two anyhow::ensure! checks on the first request
RequestError(req) ==
    IF req.method # "CONNECT" THEN ErrNotConnect
    ELSE IF req.protocol # "WEB_TRANSPORT" THEN ErrNotWebTransport
    ELSE "none"

\* H3AcceptFailed that unwraps the request instead of returning the error
H3AcceptFailedUnwrap ==
    /\ task = "h3accept"
    /\ h3Accepts' = h3Accepts + 1
    /\ Finish("panic")
    /\ UNCHANGED <<clientVars, serverVars, startupVars, authVars, request, sessionAccepts, accepted,
                   tcpConnects, peerVars, copyVars>>

\* h3.accept().await resolved with an error or with Ok(None)
H3AcceptFailed ==
    /\ task = "h3accept"
    /\ h3Accepts' = h3Accepts + 1
    /\ \E e \in {ErrH3, ErrClosed} : Finish(e)
    /\ UNCHANGED <<clientVars, serverVars, startupVars, authVars, request, sessionAccepts, accepted, tcpConnects, peerVars, copyVars>>

\* H3Accepted that goes back to h3.accept() for the next session request
H3AcceptedAgain ==
    /\ task = "h3accept"
    /\ sessionAccepts < 3
    /\ h3Accepts' = h3Accepts + 1
    /\ sessionAccepts' = sessionAccepts + 1
    /\ request' = [method |-> "CONNECT", protocol |-> "WEB_TRANSPORT"]
    /\ \/ task' = "h3accept"
       \/ task' = "wtaccept"
    /\ UNCHANGED <<clientVars, serverVars, startupVars, authVars, outcome, accepted, tcpConnects,
                   peerVars, copyVars>>

\* h3.accept().await resolved with the first request: verify it, then call
\* WebTransportSession::accept
H3Accepted ==
    /\ task = "h3accept"
    /\ h3Accepts' = h3Accepts + 1
    /\ \E m \in Methods, p \in Protocols :
        LET req == [method |-> m, protocol |-> p] IN
        /\ request' = req
        /\ IF RequestError(req) = "none"
           THEN /\ sessionAccepts' = sessionAccepts + 1
                /\ task' = "wtaccept"
                /\ UNCHANGED outcome
           ELSE /\ Finish(RequestError(req))
                /\ UNCHANGED sessionAccepts
    /\ UNCHANGED <<clientVars, serverVars, startupVars, authVars, accepted, tcpConnects, peerVars, copyVars>>

\* WebTransportSession::accept(request, stream, h3).await, then the caller's
\* session.accept_bidirectional() up to its accept_bi().await
SessionAccepted ==
    /\ task = "wtaccept"
    /\ \/ task' = "acceptbi" /\ UNCHANGED outcome
       \/ Finish(ErrH3)
    /\ UNCHANGED <<clientVars, serverVars, startupVars, authVars, negotiationVars, tcpConnects, peerVars, copyVars>>

(***************************************************************************)
(* Session::accept_bidirectional                                           *)
(***************************************************************************)
\* what accept_bi().await can resolve to
BiRequests == {"BidiStream", "Request", "None", "Err"}

\* AcceptBiOutcome without the ok_or on accept_bi's Ok(None)
AcceptBiOutcomeLenient(r) ==
    CASE r = "Err" -> ErrH3
      [] r = "None" -> "none"
      [] r = "Request" -> "panic"
      [] r = "BidiStream" -> "none"

\* how accept_bidirectional ends for each resolution of accept_bi: an error
\* through `?` or ok_or, a panic in todo!(), or "none" for going on with the
\* stream
AcceptBiOutcome(r) ==
    CASE r = "Err" -> ErrH3
      [] r = "None" -> ErrUnsupportedStream
      [] r = "Request" -> "panic"
      [] r = "BidiStream" -> "none"

AcceptBi ==
    /\ task = "acceptbi"
    /\ \E r \in BiRequests :
        /\ accepted' = r
        /\ IF AcceptBiOutcome(r) = "none"
           THEN task' = "greeting" /\ UNCHANGED outcome
           ELSE Finish(AcceptBiOutcome(r))
    /\ UNCHANGED <<clientVars, serverVars, startupVars, authVars, request, h3Accepts, sessionAccepts, tcpConnects, peerVars, copyVars>>

\* bytes accept_bidirectional writes to the accepted stream before returning it
StreamPreamble == Greeting

\* stream.write_all(b"hello webtransport!").await, then Proxy::start up to
\* its TcpStream::connect(upstream).await
GreetingWritten ==
    /\ task = "greeting"
    /\ \/ /\ written' = [written EXCEPT !["stream"] = @ \o StreamPreamble]
          /\ task' = "tcpconnect"
          /\ tcpConnects' = tcpConnects + 1
          /\ UNCHANGED outcome
       \/ /\ Finish(ErrStreamWrite)
          /\ UNCHANGED <<written, tcpConnects>>
    /\ UNCHANGED <<clientVars, serverVars, startupVars, authVars, negotiationVars, peerVars, transfer, unreadAtHalfClose>>

(***************************************************************************)
(* Proxy::start                                                            *)
(***************************************************************************)
\* TcpConnected that tries the upstream again before it gives up
TcpConnectedRetrying ==
    /\ task = "tcpconnect"
    /\ \/ task' = "relay" /\ UNCHANGED <<outcome, tcpConnects>>
       \/ /\ tcpConnects < 2
          /\ tcpConnects' = tcpConnects + 1
          /\ UNCHANGED <<task, outcome>>
       \/ /\ tcpConnects >= 2
          /\ Finish(ErrUpstream)
          /\ UNCHANGED tcpConnects
    /\ UNCHANGED <<clientVars, serverVars, startupVars, authVars, negotiationVars, peerVars, copyVars>>

\* TcpStream::connect(upstream).await
TcpConnected ==
    /\ task = "tcpconnect"
    /\ \/ task' = "relay" /\ UNCHANGED outcome
       \/ Finish(ErrUpstream)
    /\ UNCHANGED <<clientVars, serverVars, startupVars, authVars, negotiationVars, tcpConnects, peerVars, copyVars>>

\* bytes of `side` the server has read so far
ReadFrom(side) ==
    Take(sent[side], transfer[IF side = "stream" THEN "a_to_b" ELSE "b_to_a"].nread)

\* bytes of `side` that were sent and are not read yet
Unread(d) == Len(sent[Source(d)]) - transfer[d].nread

\* RelayFinished that ends the relay with the first finished direction
RelayFinishedEither(t) == t["a_to_b"].st = "Done" \/ t["b_to_a"].st = "Done"

\* copy_bidirectional resolves Ok once both directions are Done
RelayFinished(t) == t["a_to_b"].st = "Done" /\ t["b_to_a"].st = "Done"

\* CopyBuffer::poll_copy: a read of k bytes from the source into the buffer
CopyRead(d) ==
    /\ task = "relay"
    /\ transfer[d].st = "Running"
    /\ ~transfer[d].read_done
    /\ \E k \in 1..Unread(d) :
        transfer' = [transfer EXCEPT
            ![d].buf = @ \o SubSeq(sent[Source(d)], transfer[d].nread + 1,
                                    transfer[d].nread + k),
            ![d].nread = @ + k]
    /\ UNCHANGED <<clientVars, serverVars, startupVars, authVars, task, outcome, negotiationVars, tcpConnects, peerVars, written,
                   unreadAtHalfClose>>

\* CopyBuffer::poll_copy: the source reports end of data (a read of 0 bytes)
CopyReadEof(d) ==
    /\ task = "relay"
    /\ transfer[d].st = "Running"
    /\ ~transfer[d].read_done
    /\ Unread(d) = 0
    /\ closed[Source(d)]
    /\ transfer' = [transfer EXCEPT ![d].read_done = TRUE]
    /\ UNCHANGED <<clientVars, serverVars, startupVars, authVars, task, outcome, negotiationVars, tcpConnects, peerVars, written,
                   unreadAtHalfClose>>

\* CopyWrite of a direction that runs detached from the relay's return
CopyWriteDetached(d) ==
    /\ task \in {"relay", "done"}
    /\ transfer[d].st = "Running"
    /\ \E j \in 1..Len(transfer[d].buf) :
        /\ written' = [written EXCEPT ![Dest(d)] = @ \o Take(transfer[d].buf, j)]
        /\ transfer' = [transfer EXCEPT ![d].buf = Drop(@, j)]
    /\ UNCHANGED <<clientVars, serverVars, startupVars, authVars, task, outcome, negotiationVars, tcpConnects, peerVars,
                   unreadAtHalfClose>>

\* CopyBuffer::poll_copy: a write of the first j buffered bytes to the destination
CopyWrite(d) ==
    /\ task = "relay"
    /\ transfer[d].st = "Running"
    /\ \E j \in 1..Len(transfer[d].buf) :
        /\ written' = [written EXCEPT ![Dest(d)] = @ \o Take(transfer[d].buf, j)]
        /\ transfer' = [transfer EXCEPT ![d].buf = Drop(@, j)]
    /\ UNCHANGED <<clientVars, serverVars, startupVars, authVars, task, outcome, negotiationVars, tcpConnects, peerVars,
                   unreadAtHalfClose>>

\* CopyBuffer::poll_copy returns: the source is exhausted and the buffer is
\* flushed, so the direction goes to TransferState::ShuttingDown
CopyFlushed(d) ==
    /\ task = "relay"
    /\ transfer[d].st = "Running"
    /\ transfer[d].read_done
    /\ transfer[d].buf = <<>>
    /\ transfer' = [transfer EXCEPT ![d].st = "ShuttingDown"]
    /\ UNCHANGED <<clientVars, serverVars, startupVars, authVars, task, outcome, negotiationVars, tcpConnects, peerVars, written,
                   unreadAtHalfClose>>

\* poll_shutdown of the destination completes: TransferState::Done; the
\* relay, and with it the task, returns when the other direction is Done too
CopyShutdown(d) ==
    /\ task = "relay"
    /\ transfer[d].st = "ShuttingDown"
    /\ transfer' = [transfer EXCEPT ![d].st = "Done"]
    /\ IF RelayFinished(transfer')
       THEN Finish("Ok")
       ELSE UNCHANGED <<task, outcome>>
    /\ UNCHANGED <<clientVars, serverVars, startupVars, authVars, negotiationVars, tcpConnects, peerVars, written, unreadAtHalfClose>>

\* a read or a write of either endpoint fails: copy_bidirectional returns the
\* error at once and the task ends
RelayError ==
    /\ task = "relay"
    /\ Finish(ErrDisconnected)
    /\ UNCHANGED <<clientVars, serverVars, startupVars, authVars, negotiationVars, tcpConnects, peerVars, copyVars>>

(***************************************************************************)
(* Environment: the stream peer (browser client) and the upstream TCP peer *)
(***************************************************************************)
\* the peer of `side` exists: the stream once it is accepted, the TCP
\* connection once it is established
Open(side) ==
    IF side = "stream" THEN task \in {"greeting", "tcpconnect", "relay"}
    ELSE task = "relay"

PeerSend(side) ==
    /\ Open(side)
    /\ ~closed[side]
    /\ Len(sent[side]) < MaxSend
    /\ \E b \in PayloadBytes : sent' = [sent EXCEPT ![side] = Append(@, b)]
    /\ UNCHANGED <<clientVars, serverVars, startupVars, authVars, task, outcome, negotiationVars, tcpConnects, closed, copyVars>>

PeerClose(side) ==
    /\ Open(side)
    /\ ~closed[side]
    /\ closed' = [closed EXCEPT ![side] = TRUE]
    /\ unreadAtHalfClose' =
          IF side = "stream" THEN Unread("b_to_a") ELSE unreadAtHalfClose
    /\ UNCHANGED <<clientVars, serverVars, startupVars, authVars, task, outcome, negotiationVars, tcpConnects, sent, written, transfer>>

Next ==
    \/ QuicEstablished
    \/ H3Built
    \/ H3AcceptFailed
    \/ H3Accepted
    \/ SessionAccepted
    \/ AcceptBi
    \/ GreetingWritten
    \/ TcpConnected
    \/ \E d \in Dirs : CopyRead(d)
    \/ \E d \in Dirs : CopyReadEof(d)
    \/ \E d \in Dirs : CopyWrite(d)
    \/ \E d \in Dirs : CopyFlushed(d)
    \/ \E d \in Dirs : CopyShutdown(d)
    \/ RelayError
    \/ \E s \in Sides : PeerSend(s)
    \/ \E s \in Sides : PeerClose(s)

Spec == Init /\ [][Next]_vars

(***************************************************************************)
(* Postgres backend wire format (postgres_protocol::message::backend), as  *)
(* the client's Connection reads it.                                       *)
(***************************************************************************)
\* big-endian encoding of a 32-bit integer
BE32(n) == <<(n \div 16777216) % 256, (n \div 65536) % 256, (n \div 256) % 256, n % 256>>

\* BigEndian::read_i32 of the four bytes of s from index i
ReadI32(s, i) ==
    (IF s[i] >= 128 THEN s[i] - 256 ELSE s[i]) * 16777216
        + s[i + 1] * 65536 + s[i + 2] * 256 + s[i + 3]

\* index of the first 0 byte of s, 0 when there is none (memchr)
FindNull(s) ==
    IF \E i \in 1..Len(s) : s[i] = 0
    THEN CHOOSE i \in 1..Len(s) : s[i] = 0 /\ \A j \in 1..(i - 1) : s[j] # 0
    ELSE 0

\* a backend message on the wire: tag, length (itself and the payload), payload
Frame(tag, payload) == <<tag>> \o BE32(Len(payload) + 4) \o payload

CStr(text) == Append(text, 0)

MechScramSha256 == <<83, 67, 82, 65, 77, 45, 83, 72, 65, 45, 50, 53, 54>>
TextServerVersion == <<115, 101, 114, 118, 101, 114, 95, 118, 101, 114, 115, 105, 111, 110>>
Text16_0 == <<49, 54, 46, 48>>
TextFatal == <<70, 65, 84, 65, 76>>
TextPasswordFailed ==
    <<112, 97, 115, 115, 119, 111, 114, 100, 32, 97, 117, 116, 104, 101, 110, 116,
      105, 99, 97, 116, 105, 111, 110, 32, 102, 97, 105, 108, 101, 100>>

\* SCRAM payloads: the server-first and server-final messages that match this
\* client's exchange, and ones that do not
ServerFirst == <<114, 61, 110>>
ServerFirstForged == <<114, 61, 120>>
ServerFinal == <<118, 61, 115>>
ServerFinalForged == <<101, 61, 115>>

\* the messages the backend of the model can send, by name
BackendMessages ==
    {"AuthenticationSasl", "AuthenticationSaslContinue", "ForgedSaslContinue",
     "AuthenticationSaslFinal", "ForgedSaslFinal", "AuthenticationOk",
     "BackendKeyData", "ParameterStatus", "ReadyForQuery", "ErrorResponse",
     "EmptyQueryResponse", "UnknownTag", "ShortLength"}

\* the bytes of each of them
Wire(name) ==
    CASE name = "AuthenticationSasl" ->
            Frame(82, BE32(10) \o CStr(MechScramSha256) \o <<0>>)
      [] name = "AuthenticationSaslContinue" -> Frame(82, BE32(11) \o ServerFirst)
      [] name = "ForgedSaslContinue" -> Frame(82, BE32(11) \o ServerFirstForged)
      [] name = "AuthenticationSaslFinal" -> Frame(82, BE32(12) \o ServerFinal)
      [] name = "ForgedSaslFinal" -> Frame(82, BE32(12) \o ServerFinalForged)
      [] name = "AuthenticationOk" -> Frame(82, BE32(0))
      [] name = "BackendKeyData" -> Frame(75, BE32(4242) \o BE32(77))
      [] name = "ParameterStatus" ->
            Frame(83, CStr(TextServerVersion) \o CStr(Text16_0))
      [] name = "ReadyForQuery" -> Frame(90, <<73>>)
      [] name = "ErrorResponse" ->
            Frame(69, <<83>> \o CStr(TextFatal) \o <<77>> \o CStr(TextPasswordFailed)
                      \o <<0>>)
      [] name = "EmptyQueryResponse" -> Frame(73, <<>>)
      [] name = "UnknownTag" -> Frame(33, <<1>>)
      [] name = "ShortLength" -> <<82, 0, 0, 0, 3>>

\* what the backend means by each well-formed one: the Message it encodes
Meaning(name) ==
    CASE name = "AuthenticationSasl" ->
            [type |-> "AuthenticationSasl", data |-> CStr(MechScramSha256) \o <<0>>]
      [] name = "AuthenticationSaslContinue" ->
            [type |-> "AuthenticationSaslContinue", data |-> ServerFirst]
      [] name = "ForgedSaslContinue" ->
            [type |-> "AuthenticationSaslContinue", data |-> ServerFirstForged]
      [] name = "AuthenticationSaslFinal" ->
            [type |-> "AuthenticationSaslFinal", data |-> ServerFinal]
      [] name = "ForgedSaslFinal" ->
            [type |-> "AuthenticationSaslFinal", data |-> ServerFinalForged]
      [] name = "AuthenticationOk" -> [type |-> "AuthenticationOk", data |-> <<>>]
      [] name = "BackendKeyData" -> [type |-> "BackendKeyData", data |-> <<4242, 77>>]
      [] name = "ParameterStatus" ->
            [type |-> "ParameterStatus", data |-> <<TextServerVersion, Text16_0>>]
      [] name = "ReadyForQuery" -> [type |-> "ReadyForQuery", data |-> <<73>>]
      [] name = "ErrorResponse" ->
            [type |-> "ErrorResponse",
             data |-> <<83>> \o CStr(TextFatal) \o <<77>> \o CStr(TextPasswordFailed)
                      \o <<0>>]
      [] name = "EmptyQueryResponse" -> [type |-> "EmptyQueryResponse", data |-> <<>>]

WellFormed(name) == name \notin {"UnknownTag", "ShortLength"}

\* results of parsing
ParseOk(type, data) == [ok |-> TRUE, type |-> type, data |-> data]

ParseErr(why) == [ok |-> FALSE, type |-> "Err", data |-> why]

\* a body that must be consumed entirely by its fixed fields
Exactly(body, n, type, data) ==
    IF Len(body) < n THEN ParseErr("unexpected EOF")
    ELSE IF Len(body) > n THEN ParseErr("invalid message length: expected buffer to be empty")
    ELSE ParseOk(type, data)

\* Message::parse of an 'R' body
ParseAuthentication(body) ==
    IF Len(body) < 4 THEN ParseErr("unexpected EOF")
    ELSE LET kind == ReadI32(body, 1)
             rest == Drop(body, 4)
         IN CASE kind = 0 -> Exactly(rest, 0, "AuthenticationOk", <<>>)
              [] kind = 2 -> Exactly(rest, 0, "AuthenticationKerberosV5", <<>>)
              [] kind = 3 -> Exactly(rest, 0, "AuthenticationCleartextPassword", <<>>)
              [] kind = 5 -> Exactly(rest, 4, "AuthenticationMd5Password", rest)
              [] kind = 6 -> Exactly(rest, 0, "AuthenticationScmCredential", <<>>)
              [] kind = 7 -> Exactly(rest, 0, "AuthenticationGss", <<>>)
              [] kind = 9 -> Exactly(rest, 0, "AuthenticationSspi", <<>>)
              [] kind = 10 -> ParseOk("AuthenticationSasl", rest)
              [] kind = 11 -> ParseOk("AuthenticationSaslContinue", rest)
              [] kind = 12 -> ParseOk("AuthenticationSaslFinal", rest)
              [] OTHER -> ParseErr("unknown authentication tag")

\* Message::parse of an 'S' body: two C strings
ParseParameterStatus(body) ==
    LET n == FindNull(body) IN
    IF n = 0 THEN ParseErr("unexpected EOF")
    ELSE LET rest == Drop(body, n)
             v == FindNull(rest)
         IN IF v = 0 THEN ParseErr("unexpected EOF")
            ELSE IF v < Len(rest)
            THEN ParseErr("invalid message length: expected buffer to be empty")
            ELSE ParseOk("ParameterStatus", <<Take(body, n - 1), Take(rest, v - 1)>>)

\* Message::parse of the body of a frame, by its tag (the tags whose bodies
\* are fixed fields, C strings or the rest of the frame)
ParseBody(tag, body) ==
    CASE tag = 82 -> ParseAuthentication(body)
      [] tag = 83 -> ParseParameterStatus(body)
      [] tag = 75 ->
            IF Len(body) < 8 THEN ParseErr("unexpected EOF")
            ELSE Exactly(body, 8, "BackendKeyData",
                         <<ReadI32(body, 1), ReadI32(body, 5)>>)
      [] tag = 90 -> Exactly(body, 1, "ReadyForQuery", body)
      [] tag = 69 -> ParseOk("ErrorResponse", body)
      [] tag = 78 -> ParseOk("NoticeResponse", body)
      [] tag = 100 -> ParseOk("CopyData", body)
      [] tag = 73 -> Exactly(body, 0, "EmptyQueryResponse", <<>>)
      [] tag = 49 -> Exactly(body, 0, "ParseComplete", <<>>)
      [] tag = 50 -> Exactly(body, 0, "BindComplete", <<>>)
      [] tag = 51 -> Exactly(body, 0, "CloseComplete", <<>>)
      [] tag = 99 -> Exactly(body, 0, "CopyDone", <<>>)
      [] tag = 110 -> Exactly(body, 0, "NoData", <<>>)
      [] tag = 115 -> Exactly(body, 0, "PortalSuspended", <<>>)
      [] OTHER -> ParseErr("unknown message tag")

\* Message::parse of one whole frame (tag, length, body)
MessageParse(frame) == ParseBody(frame[1], Drop(frame, 5))

\* Header::parse: "None" below five bytes, an error for a length below four
HeaderParse(buf) ==
    IF Len(buf) < 5 THEN [kind |-> "None", len |-> 0]
    ELSE IF ReadI32(buf, 2) < 4 THEN [kind |-> "Err", len |-> 0]
    ELSE [kind |-> "Some", len |-> ReadI32(buf, 2)]

\* bytes decode_pending splits off the front of pending for a header
FrameSize(header) == header.len + 1

\* the length guard with > in place of >=: a frame passes for buffered only
\* when a byte of the next one has arrived
FrameBufferedStrict(buf, header) == Len(buf) > header.len + 1

\* the frame is wholly buffered
FrameBuffered(buf, header) == Len(buf) >= header.len + 1

\* Connection::decode_pending on the pending bytes `buf`: the result
\* ("Some" message, "None", "Err") and the bytes left in pending
DecodePending(buf) ==
    LET header == HeaderParse(buf) IN
    CASE header.kind = "Err" ->
            [kind |-> "Err", msg |-> ParseErr("Error parsing the header from a backend message"),
             rest |-> buf]
      [] header.kind = "Some" /\ FrameBuffered(buf, header) ->
            LET m == MessageParse(Take(buf, FrameSize(header))) IN
            [kind |-> IF m.ok THEN "Some" ELSE "Err",
             msg |-> IF m.ok THEN [type |-> m.type, data |-> m.data]
                     ELSE ParseErr("Error parsing the next message from the backend"),
             rest |-> Drop(buf, FrameSize(header))]
      [] OTHER -> [kind |-> "None", msg |-> ParseErr("none"), rest |-> buf]

(***************************************************************************)
(* The client's handshake: Startup::start and sasl over one Connection,    *)
(* with the backend behind the stream as environment.                      *)
(***************************************************************************)
NoResult == [status |-> "none", prefix |-> "", body |-> <<>>]

\* Ok(self.0): the Connection { read, write, pending }
OkResult == [status |-> "Ok", prefix |-> "", body |-> <<>>]

\* Err(JsValue::from(text)), the text being prefix followed by body
ErrResult(prefix, body) == [status |-> "Err", prefix |-> prefix, body |-> body]

\* a rejected read() or write() promise
ErrTransport == "transport error"

\* ScramSha256::update / ::finish: the challenge and the server signature
\* verify only for the payloads of this exchange
ScramUpdateOk(data) == data = ServerFirst

\* ScramSha256::finish that accepts any server signature
ScramFinishAny(data) == TRUE

ScramFinishOk(data) == data = ServerFinal

\* FormatError that keeps the first field only
RECURSIVE FormatErrorFirstField(_)
FormatErrorFirstField(fields) ==
    IF fields = <<>> \/ fields[1] = 0 THEN <<>>
    ELSE LET end == FindNull(Drop(fields, 1)) IN
         IF end = 0 THEN <<>>
         ELSE SubSeq(fields, 2, end) \o <<32>>

\* format_error: the values of the fields of an ErrorResponse body, each
\* followed by a space, up to the terminator or the first malformed field
RECURSIVE FormatError(_)
FormatError(fields) ==
    IF fields = <<>> \/ fields[1] = 0 THEN <<>>
    ELSE LET end == FindNull(Drop(fields, 1)) IN
         IF end = 0 THEN <<>>
         ELSE SubSeq(fields, 2, end) \o <<32>> \o FormatError(Drop(fields, end + 1))

\* the caller's match on a decoded message at each decode() of start / sasl:
\* go on to the next write, to the next decode, or return
Handle(at, msg) ==
    LET Write(to) == [next |-> "write", pc |-> to, result |-> NoResult]
        Decode(to) == [next |-> "decode", pc |-> to, result |-> NoResult]
        Return(r) == [next |-> "return", pc |-> "returned", result |-> r]
        Error == Return(ErrResult("Errors: ", FormatError(msg.data)))
    IN
    CASE at = "auth" ->
            IF msg.type = "AuthenticationSasl" THEN Write("w_initial")
            ELSE Return(ErrResult("Unsupported backend message type", <<>>))
      [] at = "continue" ->
            IF msg.type = "AuthenticationSaslContinue"
            THEN IF ScramUpdateOk(msg.data) THEN Write("w_response")
                 ELSE Return(ErrResult("Error continuing SASL handshake: ", <<>>))
            ELSE IF msg.type = "ErrorResponse" THEN Error
            ELSE Return(ErrResult("Unexpected message during SASL handshake", <<>>))
      [] at = "final" ->
            IF msg.type = "AuthenticationSaslFinal"
            THEN IF ScramFinishOk(msg.data) THEN Decode("drain")
                 ELSE Return(ErrResult("Error finalizing SASL handshake: ", <<>>))
            ELSE IF msg.type = "ErrorResponse" THEN Error
            ELSE Return(ErrResult("Unexpected message finalizing SASL handshake", <<>>))
      [] at = "drain" ->
            IF msg.type \in {"BackendKeyData", "ParameterStatus", "AuthenticationOk"}
            THEN Decode("drain")
            ELSE IF msg.type = "ReadyForQuery" THEN Return(OkResult)
            ELSE IF msg.type = "ErrorResponse" THEN Error
            ELSE Return(ErrResult("Unexpected backend message type", <<>>))

\* AfterWrite that awaits AuthenticationSASLContinue again after the SASL
\* response
AfterWriteBack(at) ==
    CASE at = "w_startup" -> "auth"
      [] at = "w_initial" -> "continue"
      [] at = "w_response" -> "continue"

\* the decode() the code reaches after a write completed at `at`
AfterWrite(at) ==
    CASE at = "w_startup" -> "auth"
      [] at = "w_initial" -> "continue"
      [] at = "w_response" -> "final"

\* Written with the two SASL messages taken for each other
WrittenSwapped(at) ==
    CASE at = "w_startup" -> "StartupMessage"
      [] at = "w_initial" -> "SASLResponse"
      [] at = "w_response" -> "SASLInitialResponse"

\* the frontend message whose write is awaited at `at`
Written(at) ==
    CASE at = "w_startup" -> "StartupMessage"
      [] at = "w_initial" -> "SASLInitialResponse"
      [] at = "w_response" -> "SASLResponse"

\* decode() that reads before it looks at pending
RunReadFirst(at, buf, history) ==
    [pc |-> at, dec |-> "reading", pending |-> buf, decoded |-> history,
     result |-> NoResult]

\* the client runs from the top of decode()'s loop at `at` with pending `buf`
\* up to its next await (a read or a write) or the return of start
RECURSIVE Run(_, _, _)
Run(at, buf, history) ==
    LET r == DecodePending(buf) IN
    CASE r.kind = "None" ->
            [pc |-> at, dec |-> "reading", pending |-> buf, decoded |-> history,
             result |-> NoResult]
      [] r.kind = "Err" ->
            [pc |-> "returned", dec |-> "Err", pending |-> r.rest, decoded |-> history,
             result |-> ErrResult(r.msg.data, <<>>)]
      [] r.kind = "Some" ->
            LET h == Handle(at, r.msg) IN
            IF h.next = "decode"
            THEN Run(h.pc, r.rest, Append(history, r.msg))
            ELSE [pc |-> h.pc, dec |-> "Some", pending |-> r.rest,
                  decoded |-> Append(history, r.msg), result |-> h.result]

\* self.pending.extend_from_slice(&buffer) that keeps the last chunk only
ReplaceWith(buf, chunk) == chunk

\* extend_from_slice that puts the chunk in front of pending
ExtendFront(buf, chunk) == chunk \o buf

\* self.pending.extend_from_slice(&buffer)
Extend(buf, chunk) == buf \o chunk

\* the chunk read() resolves with at the end of the stream: value is
\* undefined, and Uint8Array::new(undefined) is an empty array
EofChunk == <<>>

\* the client takes the state `r` that Run computed
Resume(r) ==
    /\ pc' = r.pc
    /\ dec' = r.dec
    /\ pending' = r.pending
    /\ decoded' = r.decoded
    /\ result' = r.result

\* start is called: the startup message is built and its write begins
ClientStart ==
    /\ pc = "start"
    /\ pc' = "w_startup"
    /\ UNCHANGED <<relayVars, serverVars, startupVars, authVars, dec, pending, out, decoded, result, eof, reassembled,
                   backendVars>>

\* encode(): the write resolves; the caller goes on to its next decode()
WriteDone ==
    /\ pc \in {"w_startup", "w_initial", "w_response"}
    /\ out' = Append(out, Written(pc))
    /\ Resume(Run(AfterWrite(pc), pending, decoded))
    /\ UNCHANGED <<relayVars, serverVars, startupVars, authVars, eof, reassembled, backendVars>>

\* encode(): the write is rejected, and `?` returns the error
WriteFail ==
    /\ pc \in {"w_startup", "w_initial", "w_response"}
    /\ pc' = "returned"
    /\ result' = ErrResult(ErrTransport, <<>>)
    /\ UNCHANGED <<relayVars, serverVars, startupVars, authVars, dec, pending, out, decoded, eof, reassembled, backendVars>>

\* decode(): read() resolves with a chunk of k bytes, which is appended to
\* pending, and the loop goes on
ReadChunk ==
    /\ pc \in {"auth", "continue", "final", "drain"}
    /\ dec = "reading"
    /\ \E k \in 1..Len(wire) :
        /\ wire' = Drop(wire, k)
        /\ Resume(Run(pc, Extend(pending, Take(wire, k)), decoded))
    /\ reassembled' = (reassembled \/ (pending # <<>> /\ decoded' # decoded))
    /\ UNCHANGED <<relayVars, serverVars, startupVars, authVars, out, eof, script, bclosed>>

\* decode(): read() resolves at the end of the stream
ReadEof ==
    /\ pc \in {"auth", "continue", "final", "drain"}
    /\ dec = "reading"
    /\ wire = <<>>
    /\ bclosed
    /\ eof' = TRUE
    /\ Resume(Run(pc, Extend(pending, EofChunk), decoded))
    /\ UNCHANGED <<relayVars, serverVars, startupVars, authVars, out, reassembled, backendVars>>

\* decode(): read() is rejected, and `?` returns the error
ReadFail ==
    /\ pc \in {"auth", "continue", "final", "drain"}
    /\ dec = "reading"
    /\ pc' = "returned"
    /\ dec' = "Err"
    /\ result' = ErrResult(ErrTransport, <<>>)
    /\ UNCHANGED <<relayVars, serverVars, startupVars, authVars, pending, out, decoded, eof, reassembled, backendVars>>

(***************************************************************************)
(* Environment: the backend. It follows the order of the startup exchange  *)
(* (the SASL messages, AuthenticationOk, then the session information) and *)
(* may at each point send something else instead, after which it sends     *)
(* nothing more (but for a forged server signature, after which it goes    *)
(* on); it may run ahead of the client and close at any time.              *)
(***************************************************************************)
\* most messages the backend sends
MaxMsgs == 7

\* the message that continues the exchange at position n
Continues(name, n) ==
    CASE n = 1 -> name = "AuthenticationSasl"
      [] n = 2 -> name = "AuthenticationSaslContinue"
      [] n = 3 -> name \in {"AuthenticationSaslFinal", "ForgedSaslFinal"}
      [] n = 4 -> name = "AuthenticationOk"
      [] OTHER -> name \in {"BackendKeyData", "ParameterStatus"}

\* what the backend may send as its n-th message
Choices(n) ==
    CASE n = 1 -> {"AuthenticationSasl", "ErrorResponse", "AuthenticationOk", "ShortLength"}
      [] n = 2 -> {"AuthenticationSaslContinue", "ForgedSaslContinue", "ErrorResponse",
                   "EmptyQueryResponse"}
      [] n = 3 -> {"AuthenticationSaslFinal", "ForgedSaslFinal", "ErrorResponse",
                   "EmptyQueryResponse"}
      [] n = 4 -> {"AuthenticationOk", "ReadyForQuery", "ErrorResponse",
                   "EmptyQueryResponse", "UnknownTag"}
      [] OTHER -> {"BackendKeyData", "ParameterStatus", "ReadyForQuery",
                   "ErrorResponse", "EmptyQueryResponse", "UnknownTag"}

BackendSend ==
    /\ pc # "returned"
    /\ ~bclosed
    /\ Len(script) < MaxMsgs
    /\ IF script = <<>> THEN TRUE ELSE Continues(script[Len(script)], Len(script))
    /\ \E name \in Choices(Len(script) + 1) :
        /\ script' = Append(script, name)
        /\ wire' = wire \o Wire(name)
    /\ UNCHANGED <<relayVars, serverVars, startupVars, authVars, pc, dec, pending, out, decoded, result, eof, reassembled,
                   bclosed>>

BackendClose ==
    /\ pc # "returned"
    /\ ~bclosed
    /\ bclosed' = TRUE
    /\ UNCHANGED <<relayVars, serverVars, startupVars, authVars, pc, dec, pending, out, decoded, result, eof, reassembled,
                   script, wire>>

ClientNext ==
    \/ ClientStart
    \/ WriteDone
    \/ WriteFail
    \/ ReadChunk
    \/ ReadEof
    \/ ReadFail
    \/ BackendSend
    \/ BackendClose

ClientSpec == Init /\ [][ClientNext]_vars

(***************************************************************************)
(* The client's handshake through the relay: the client's stream is the    *)
(* one the connection task accepts, and the backend is the upstream TCP    *)
(* peer. What the task writes to the stream is what the client reads.      *)
(***************************************************************************)
\* the backend's side of a successful startup
SuccessfulExchange ==
    <<"AuthenticationSasl", "AuthenticationSaslContinue", "AuthenticationSaslFinal",
      "AuthenticationOk", "ReadyForQuery">>

\* the connection task runs Session::start and accept_bidirectional on the
\* client's CONNECT request and stream, and Proxy::start up to
\* copy_bidirectional: the session is accepted, the stream is accepted and
\* the greeting written to it, and the upstream connection is opened
TunnelEstablished ==
    /\ task = "connecting"
    /\ task' = "relay"
    /\ request' = [method |-> "CONNECT", protocol |-> "WEB_TRANSPORT"]
    /\ RequestError(request') = "none"
    /\ h3Accepts' = h3Accepts + 1
    /\ sessionAccepts' = sessionAccepts + 1
    /\ accepted' = "BidiStream"
    /\ AcceptBiOutcome(accepted') = "none"
    /\ written' = [written EXCEPT !["stream"] = @ \o StreamPreamble]
    /\ wire' = wire \o StreamPreamble
    /\ tcpConnects' = tcpConnects + 1
    /\ UNCHANGED <<serverVars, startupVars, authVars, outcome, peerVars, transfer, unreadAtHalfClose,
                   pc, dec, pending, out, decoded, result, eof, reassembled, script,
                   bclosed>>

\* the backend sends its next message to the TCP socket and
\* copy_bidirectional copies it to the stream (a read of the socket and a
\* write to the stream)
TunnelRelaysMessage ==
    /\ task = "relay"
    /\ ~bclosed
    /\ Len(script) < Len(SuccessfulExchange)
    /\ LET name == SuccessfulExchange[Len(script) + 1] IN
        /\ script' = Append(script, name)
        /\ sent' = [sent EXCEPT !["tcp"] = @ \o Wire(name)]
        /\ transfer' = [transfer EXCEPT !["b_to_a"].nread = @ + Len(Wire(name))]
        /\ written' = [written EXCEPT !["stream"] = @ \o Wire(name)]
        /\ wire' = wire \o Wire(name)
    /\ UNCHANGED <<serverVars, startupVars, authVars, task, outcome, negotiationVars, tcpConnects,
                   closed, unreadAtHalfClose, pc, dec, pending, out, decoded, result, eof,
                   reassembled, bclosed>>

\* the backend closes the TCP connection; copy_bidirectional meets the end
\* of data on the socket and shuts the stream's write side down
TunnelRelaysClose ==
    /\ task = "relay"
    /\ ~bclosed
    /\ bclosed' = TRUE
    /\ closed' = [closed EXCEPT !["tcp"] = TRUE]
    /\ transfer' = [transfer EXCEPT !["b_to_a"].read_done = TRUE,
                                     !["b_to_a"].st = "Done"]
    /\ UNCHANGED <<serverVars, startupVars, authVars, task, outcome, negotiationVars, tcpConnects,
                   sent, written, unreadAtHalfClose, pc, dec, pending, out, decoded,
                   result, eof, reassembled, script, wire>>

TunnelNext ==
    \/ TunnelEstablished
    \/ TunnelRelaysMessage
    \/ TunnelRelaysClose
    \/ ClientStart
    \/ WriteDone
    \/ WriteFail
    \/ ReadChunk
    \/ ReadEof
    \/ ReadFail

TunnelSpec == Init /\ [][TunnelNext]_vars

(***************************************************************************)
(* The server: the endpoint's accept loop and the task it spawns for each  *)
(* connection attempt (Session::start, accept_bidirectional, Proxy::start),*)
(* with the clients as environment.                                        *)
(***************************************************************************)
\* a connection task has ended with an error or a panic
Failed(c) == ended[c] \notin {"none", "Ok"}

\* a panic or an error that takes the whole process down with it
AbortProcess(c, how) ==
    /\ phase' = [k \in Conns |-> "ended"]
    /\ ended' = [k \in Conns |-> IF ended[k] = "none" THEN how ELSE ended[k]]
    /\ listening' = FALSE

\* the task of connection c ends with `how`: an error through `?`, logged
\* by inspect_err, a panic caught by the runtime at the task's boundary, or
\* Ok; the JoinHandle is dropped, so nothing else observes it
TaskEnds(c, how) ==
    /\ phase' = [phase EXCEPT ![c] = "ended"]
    /\ ended' = [ended EXCEPT ![c] = how]
    /\ listening' = listening

\* Spawn that awaits the connection's handler inside for_each instead of
\* spawning it: the next attempt is taken when the earlier tasks have ended
SpawnInline(c) ==
    /\ listening
    /\ phase[c] = "unborn"
    /\ \A k \in 1..(c - 1) : phase[k] = "ended"
    /\ phase' = [phase EXCEPT ![c] = "negotiating"]
    /\ UNCHANGED <<relayVars, clientVars, startupVars, authVars, listening, ended, opened, streams,
                   upstreams, copied, survived>>

\* for_each: the endpoint yields a connection attempt and its task is spawned
Spawn(c) ==
    /\ listening
    /\ phase[c] = "unborn"
    /\ \A k \in 1..(c - 1) : phase[k] # "unborn"
    /\ phase' = [phase EXCEPT ![c] = "negotiating"]
    /\ UNCHANGED <<relayVars, clientVars, startupVars, authVars, listening, ended, opened, streams,
                   upstreams, copied, survived>>

\* Session::start(connection_attempt).await
SessionStarted(c) ==
    /\ phase[c] = "negotiating"
    /\ \/ /\ phase' = [phase EXCEPT ![c] = "accepting"]
          /\ UNCHANGED <<listening, ended>>
       \/ \E e \in {ErrQuic, ErrH3, ErrClosed, ErrNotConnect, ErrNotWebTransport} :
              TaskEnds(c, e)
    /\ UNCHANGED <<relayVars, clientVars, startupVars, authVars, opened, streams, upstreams, copied,
                   survived>>

\* the client of c opens a bidirectional stream on its session
StreamOpened(c) ==
    /\ phase[c] \in {"accepting", "connecting", "relaying"}
    /\ opened[c] < MaxStreams
    /\ opened' = [opened EXCEPT ![c] = @ + 1]
    /\ UNCHANGED <<relayVars, clientVars, startupVars, authVars, listening, phase, ended, streams,
                   upstreams, copied, survived>>

\* session.accept_bidirectional().await, then Proxy::start up to its
\* TcpStream::connect(upstream).await
StreamAccepted(c) ==
    /\ phase[c] = "accepting"
    /\ \/ /\ opened[c] > streams[c]
          /\ streams' = [streams EXCEPT ![c] = @ + 1]
          /\ upstreams' = [upstreams EXCEPT ![c] = @ + 1]
          /\ phase' = [phase EXCEPT ![c] = "connecting"]
          /\ UNCHANGED <<listening, ended>>
       \/ /\ \E r \in BiRequests \ {"BidiStream"} : TaskEnds(c, AcceptBiOutcome(r))
          /\ UNCHANGED <<streams, upstreams>>
       \/ /\ opened[c] > streams[c]
          /\ streams' = [streams EXCEPT ![c] = @ + 1]
          /\ TaskEnds(c, ErrStreamWrite)
          /\ UNCHANGED upstreams
    /\ UNCHANGED <<relayVars, clientVars, startupVars, authVars, opened, copied, survived>>

\* TcpStream::connect(upstream).await
UpstreamConnected(c) ==
    /\ phase[c] = "connecting"
    /\ \/ /\ phase' = [phase EXCEPT ![c] = "relaying"]
          /\ UNCHANGED <<listening, ended>>
       \/ TaskEnds(c, ErrUpstream)
    /\ UNCHANGED <<relayVars, clientVars, startupVars, authVars, opened, streams, upstreams, copied,
                   survived>>

\* copy_bidirectional of c copies a byte
RelayCopies(c) ==
    /\ phase[c] = "relaying"
    /\ copied[c] < MaxCopied
    /\ copied' = [copied EXCEPT ![c] = @ + 1]
    /\ survived' = IF \E k \in Conns \ {c} : Failed(k) THEN survived \cup {c} ELSE survived
    /\ UNCHANGED <<relayVars, clientVars, startupVars, authVars, listening, phase, ended, opened,
                   streams, upstreams>>

\* copy_bidirectional of c returns, and with it Proxy::start and the task
RelayReturns(c) ==
    /\ phase[c] = "relaying"
    /\ \E how \in {"Ok", ErrDisconnected} : TaskEnds(c, how)
    /\ UNCHANGED <<relayVars, clientVars, startupVars, authVars, opened, streams, upstreams, copied,
                   survived>>

ServerNext ==
    \E c \in Conns :
        \/ Spawn(c)
        \/ SessionStarted(c)
        \/ StreamOpened(c)
        \/ StreamAccepted(c)
        \/ UpstreamConnected(c)
        \/ RelayCopies(c)
        \/ RelayReturns(c)

ServerSpec == Init /\ [][ServerNext]_vars

(***************************************************************************)
(* The startup message: postgres_protocol::message::frontend::             *)
(* startup_message as Startup::start calls it on its `params`.             *)
(***************************************************************************)
\* most parameters in the list passed to start
MaxParams == 2

\* the strings a parameter's key or value is drawn from: "", "u", "db" and
\* "a\0" (a &str may hold a zero byte)
ParamStrings == {<<>>, <<117>>, <<100, 98>>, <<97, 0>>}

ParamLists == UNION {[1..n -> ParamStrings \X ParamStrings] : n \in 0..MaxParams}

HasNull(text) == \E i \in 1..Len(text) : text[i] = 0

\* write_cstr that leaves out the terminating zero byte
RECURSIVE WritePairsUnterminated(_)
WritePairsUnterminated(list) ==
    IF list = <<>> THEN <<>>
    ELSE Head(list)[1] \o Head(list)[2] \o WritePairsUnterminated(Tail(list))

\* write_cstr of each key and each value, in order
RECURSIVE WritePairs(_)
WritePairs(list) ==
    IF list = <<>> THEN <<>>
    ELSE CStr(Head(list)[1]) \o CStr(Head(list)[2]) \o WritePairs(Tail(list))

\* startup_message(params, &mut buffer): the length (itself included), the
\* protocol version 3.0, the pairs and a zero byte; no tag byte. write_cstr
\* refuses a string that holds a zero byte, and the call returns the error
StartupMessage(list) ==
    IF \E i \in 1..Len(list) : HasNull(list[i][1]) \/ HasNull(list[i][2])
    THEN [ok |-> FALSE, bytes |-> <<>>, done |-> TRUE]
    ELSE LET body == BE32(196608) \o WritePairs(list) \o <<0>> IN
         [ok |-> TRUE, bytes |-> BE32(Len(body) + 4) \o body, done |-> TRUE]

\* start is called with any parameter list
StartupCalled ==
    /\ TaskSpawned
    /\ ClientIdle
    /\ ServerIdle
    /\ AuthIdle
    /\ params \in ParamLists
    /\ startup = NotEncoded

\* start builds the startup message from its params
StartupEncoded ==
    /\ ~startup.done
    /\ startup' = StartupMessage(params)
    /\ UNCHANGED <<relayVars, clientVars, serverVars, authVars, params>>

StartupSpec == StartupCalled /\ [][StartupEncoded]_vars

(***************************************************************************)
(* run() and authenticate of src/client/src/lib.rs: one read() and one     *)
(* Message::parse for each message of the handshake, with the backend      *)
(* behind the stream as environment.                                       *)
(***************************************************************************)
\* most backend messages in the chunk one read() resolves with
MaxChunk == 2

\* the backend messages a chunk is made of
AuthNames ==
    {"AuthenticationSasl", "AuthenticationSaslContinue", "AuthenticationSaslFinal",
     "AuthenticationOk", "BackendKeyData", "ParameterStatus", "ReadyForQuery",
     "ErrorResponse", "EmptyQueryResponse"}

\* the chunks read() can resolve with: the empty one at the end of the
\* stream (value is undefined), or up to MaxChunk messages
AuthChunks == UNION {[1..n -> AuthNames] : n \in 0..MaxChunk}

\* the bytes of a chunk
RECURSIVE ChunkBytes(_)
ChunkBytes(names) ==
    IF names = <<>> THEN <<>> ELSE Wire(names[1]) \o ChunkBytes(Tail(names))

\* Message::parse(&mut buffer): Ok(None) while the buffer holds no whole
\* frame, else the frame is split off the buffer and parsed
ParseMessage(buf) ==
    LET header == HeaderParse(buf) IN
    CASE header.kind = "Err" -> [kind |-> "Err", rest |-> buf]
      [] header.kind = "Some" /\ Len(buf) >= header.len + 1 ->
            LET m == MessageParse(Take(buf, header.len + 1)) IN
            [kind |-> IF m.ok THEN "Some" ELSE "Err",
             msg |-> [type |-> m.type, data |-> m.data],
             rest |-> Drop(buf, header.len + 1)]
      [] OTHER -> [kind |-> "None", rest |-> buf]

\* the map_err on every Message::parse of lib.rs
AuthParseError == ErrResult("Error parsing the next message from the backend: ", <<>>)

\* Ok((process_id, secret_key, parameters))
SessionInfo(process_id, secret_key, parameters) ==
    [status |-> "Ok", prefix |-> "", body |-> <<process_id, secret_key, parameters>>]

\* what authenticate does next: go on at `at`, or return `r`
\* (the buffer of the read is shadowed by the buffer of the next frontend
\* message, so what it still holds is out of reach)
AuthGoOn(at, msgs) == [at |-> at, session |-> NoResult, msgs |-> msgs, buffer |-> <<>>]

AuthReturn(how, r, msgs) ==
    [at |-> "returned", session |-> how, msgs |-> msgs, buffer |-> r.rest]

\* read_session_info(&mut buffer): one Message::parse of what the buffer of
\* the last read still holds, one match, and the return
ReadSessionInfo(buf, msgs) ==
    LET r == ParseMessage(buf) IN
    CASE r.kind = "Err" -> AuthReturn(AuthParseError, r, msgs)
      [] r.kind = "None" -> AuthReturn(ErrResult("Connection closed", <<>>), r, msgs)
      [] r.kind = "Some" ->
            LET all == Append(msgs, r.msg) IN
            CASE r.msg.type = "BackendKeyData" ->
                    AuthReturn(SessionInfo(r.msg.data[1], r.msg.data[2], <<>>), r, all)
              [] r.msg.type = "ParameterStatus" ->
                    AuthReturn(SessionInfo(0, 0, <<r.msg.data>>), r, all)
              [] r.msg.type \in {"ReadyForQuery", "AuthenticationOk"} ->
                    AuthReturn(SessionInfo(0, 0, <<>>), r, all)
              [] r.msg.type = "ErrorResponse" ->
                    AuthReturn(ErrResult("Errors: ", FormatError(r.msg.data)), r, all)
              [] OTHER ->
                    AuthReturn(ErrResult("Unexpected backend message type", <<>>), r, all)

\* authenticate from the read at `at` that resolved with the bytes `buf`, up
\* to its next await or its return
Authenticate(at, buf, msgs) ==
    LET r == ParseMessage(buf) IN
    CASE r.kind = "Err" -> AuthReturn(AuthParseError, r, msgs)
      [] r.kind = "None" -> AuthReturn(ErrResult("Connection closed", <<>>), r, msgs)
      [] r.kind = "Some" ->
            LET all == Append(msgs, r.msg)
                Errors == AuthReturn(ErrResult("Errors: ", FormatError(r.msg.data)), r, all)
            IN
            CASE at = "auth" ->
                    IF r.msg.type = "AuthenticationSasl"
                    THEN AuthGoOn("w_initial", all)
                    ELSE AuthReturn(ErrResult("Unsupported backend message type", <<>>),
                                    r, all)
              [] at = "continue" ->
                    IF r.msg.type = "AuthenticationSaslContinue"
                    THEN IF ScramUpdateOk(r.msg.data)
                         THEN AuthGoOn("w_response", all)
                         ELSE AuthReturn(ErrResult("Error continuing SASL handshake: ",
                                                   <<>>), r, all)
                    ELSE IF r.msg.type = "ErrorResponse" THEN Errors
                    ELSE AuthReturn(ErrResult("Unexpected message during SASL handshake",
                                              <<>>), r, all)
              [] at = "final" ->
                    IF r.msg.type = "AuthenticationSaslFinal"
                    THEN IF ScramFinishOk(r.msg.data)
                         THEN ReadSessionInfo(r.rest, all)
                         ELSE AuthReturn(ErrResult("Error finalizing SASL handshake: ",
                                                   <<>>), r, all)
                    ELSE IF r.msg.type = "ErrorResponse" THEN Errors
                    ELSE AuthReturn(ErrResult("Unexpected message finalizing SASL handshake",
                                              <<>>), r, all)

\* writer.write_with_chunk(&message) resolves: the next read() is issued
AuthWritten ==
    /\ authAt \in {"w_startup", "w_initial", "w_response"}
    /\ writes' = Append(writes, Written(authAt))
    /\ authAt' = AfterWrite(authAt)
    /\ UNCHANGED <<relayVars, clientVars, serverVars, startupVars, buffer, parsed, session>>

\* writer.write_with_chunk(&message) rejects: `?` returns the error
AuthWriteFailed ==
    /\ authAt \in {"w_startup", "w_initial", "w_response"}
    /\ authAt' = "returned"
    /\ session' = ErrResult(ErrTransport, <<>>)
    /\ UNCHANGED <<relayVars, clientVars, serverVars, startupVars, buffer, parsed, writes>>

\* reader.read() resolves with a chunk, which becomes the buffer that
\* Message::parse is called on
AuthRead ==
    /\ authAt \in {"auth", "continue", "final"}
    /\ \E chunk \in AuthChunks :
        LET a == Authenticate(authAt, ChunkBytes(chunk), parsed) IN
        /\ authAt' = a.at
        /\ buffer' = a.buffer
        /\ parsed' = a.msgs
        /\ session' = a.session
    /\ UNCHANGED <<relayVars, clientVars, serverVars, startupVars, writes>>

\* reader.read() rejects: `?` returns the error
AuthReadFailed ==
    /\ authAt \in {"auth", "continue", "final"}
    /\ authAt' = "returned"
    /\ session' = ErrResult(ErrTransport, <<>>)
    /\ UNCHANGED <<relayVars, clientVars, serverVars, startupVars, buffer, parsed, writes>>

AuthNext == AuthWritten \/ AuthWriteFailed \/ AuthRead \/ AuthReadFailed

AuthSpec == Init /\ [][AuthNext]_vars

(***************************************************************************)
(* Claims about the client, checked under ClientSpec.                      *)
(***************************************************************************)
\* the bytes of the messages named in `names`, one after another
RECURSIVE Flatten(_)
Flatten(names) ==
    IF names = <<>> THEN <<>> ELSE Wire(Head(names)) \o Flatten(Tail(names))

\* text contains sub
Contains(text, sub) ==
    \E i \in 0..(Len(text) - Len(sub)) : SubSeq(text, i + 1, i + Len(sub)) = sub

\* what decode() returns for bytes that arrive as a single chunk on an empty
\* pending
DecodeWhole(bytes) == DecodePending(Extend(<<>>, bytes)).msg

\* C2: reassembly is independent of chunk boundaries: however the bytes of a
\* valid message are split into chunks, decode() yields exactly one message
\* for it, equal to the one obtained when its bytes arrive as a single chunk;
\* so whenever decode() waits for a chunk, pending holds a proper prefix of
\* the next message and nothing else.
ChunkingIndependent ==
    /\ Len(decoded) <= Len(script)
    /\ \A i \in 1..Len(decoded) :
        /\ decoded[i] = DecodeWhole(Wire(script[i]))
        /\ decoded[i] = Meaning(script[i])
    /\ dec = "reading" =>
        IF Len(decoded) < Len(script)
        THEN /\ IsPrefix(pending, Wire(script[Len(decoded) + 1]))
             /\ Len(pending) < Len(Wire(script[Len(decoded) + 1]))
        ELSE pending = <<>>

\* C2 witness: a message whose bytes arrived in more than one chunk was
\* returned by decode().
ChunkingWitness ==
    /\ reassembled
    /\ Len(decoded) >= 2
    /\ decoded[Len(decoded)] = Meaning(script[Len(decoded)])

\* decode_pending called on `buf` again and again until it does not return a
\* message: the messages, the bytes each call removed, the length each
\* header declared, how the last call ended and what it left in pending
RECURSIVE DrainPending(_)
DrainPending(buf) ==
    LET r == DecodePending(buf) IN
    IF r.kind # "Some"
    THEN [msgs |-> <<>>, removed |-> <<>>, declared |-> <<>>, end |-> r.kind,
          rest |-> r.rest]
    ELSE LET d == DrainPending(r.rest) IN
         [msgs |-> <<r.msg>> \o d.msgs,
          removed |-> <<Len(buf) - Len(r.rest)>> \o d.removed,
          declared |-> <<ReadI32(buf, 2)>> \o d.declared,
          end |-> d.end, rest |-> d.rest]

\* the names of the complete messages at the front of `buf`, when `buf`
\* starts with the messages named in `names` (the largest such prefix)
RECURSIVE CompleteIn(_, _)
CompleteIn(buf, names) ==
    IF names = <<>> \/ ~IsPrefix(Wire(Head(names)), buf) THEN <<>>
    ELSE <<Head(names)>> \o CompleteIn(Drop(buf, Len(Wire(Head(names)))), Tail(names))

\* the messages the backend sent that decode() has not returned yet
Undecoded == SubSeq(script, Len(decoded) + 1, Len(script))

\* pending holds N >= 1 complete well-formed messages and then a partial one
HoldsCompleteThenPartial(buf, names) ==
    LET whole == CompleteIn(buf, names)
        partial == Drop(buf, Len(Flatten(whole)))
    IN /\ Len(whole) >= 1
       /\ \A i \in 1..Len(whole) : WellFormed(whole[i])
       /\ IF Len(whole) < Len(names)
          THEN /\ IsPrefix(partial, Wire(names[Len(whole) + 1]))
               /\ Len(partial) < Len(Wire(names[Len(whole) + 1]))
               /\ WellFormed(names[Len(whole) + 1])
          ELSE partial = <<>>

\* C3: when pending holds N >= 1 complete messages followed by a partial
\* one, the first N calls of decode_pending each return one message, in
\* arrival order, and remove exactly declared_length + 1 bytes; the next call
\* returns None and leaves the bytes of the partial message in pending.
DrainsCompleteMessages ==
    HoldsCompleteThenPartial(pending, Undecoded) =>
        LET whole == CompleteIn(pending, Undecoded)
            d == DrainPending(pending)
        IN /\ d.msgs = [i \in 1..Len(whole) |-> Meaning(whole[i])]
           /\ d.removed = [i \in 1..Len(whole) |-> Len(Wire(whole[i]))]
           /\ \A i \in 1..Len(whole) : d.removed[i] = d.declared[i] + 1
           /\ d.end = "None"
           /\ d.rest = Drop(pending, Len(Flatten(whole)))

\* C3 witness: pending holds two or more complete messages and a non-empty
\* part of the next one, and decode_pending drains exactly the complete ones.
DrainsWitness ==
    /\ HoldsCompleteThenPartial(pending, Undecoded)
    /\ Len(CompleteIn(pending, Undecoded)) >= 2
    /\ Len(pending) > Len(Flatten(CompleteIn(pending, Undecoded)))
    /\ Len(DrainPending(pending).msgs) = Len(CompleteIn(pending, Undecoded))

\* C4: when the transport signals end-of-stream while pending holds no
\* complete message, decode() returns Ok(None) and issues no further read.
DecodeEndsAtEof == eof => dec = "None"

LastIsErrorResponse ==
    /\ Len(decoded) >= 1
    /\ decoded[Len(decoded)].type = "ErrorResponse"

FailedWithPasswordError ==
    /\ pc = "returned"
    /\ result.status = "Err"
    /\ Contains(result.body, TextPasswordFailed)

\* C5 (as stated): an ErrorResponse with the message "password authentication
\* failed" received at any point of the handshake (also while awaiting
\* AuthenticationSASL) makes start fail with an error whose text contains
\* that message.
ErrorResponseFatalEverywhere == LastIsErrorResponse => FailedWithPasswordError

\* C5 (amended): such an ErrorResponse received while awaiting
\* AuthenticationSASLContinue or AuthenticationSASLFinal or while draining
\* session info makes start fail with an error whose text contains the
\* message; received while awaiting AuthenticationSASL it makes start fail
\* with "Unsupported backend message type"; in every case start has returned
\* and nothing more is written or read.
ErrorResponseFatalAfterSasl ==
    /\ []((LastIsErrorResponse /\ Len(decoded) >= 2) => FailedWithPasswordError)
    /\ []((LastIsErrorResponse /\ Len(decoded) = 1) =>
            /\ pc = "returned"
            /\ result = ErrResult("Unsupported backend message type", <<>>))
    /\ [][pc = "returned" => UNCHANGED <<pc, dec, pending, out, decoded, result, wire>>]_vars

\* C5 witness: start failed on an ErrorResponse received after the SASL
\* exchange had begun.
ErrorResponseWitness ==
    /\ LastIsErrorResponse
    /\ Len(decoded) >= 2
    /\ FailedWithPasswordError

\* the session parameters the Connection that start returns gives access to:
\* Connection holds the two stream halves and pending, nothing else
ConnectionParameters(r) == {}

LiteralExchange ==
    <<"AuthenticationSasl", "AuthenticationSaslContinue", "AuthenticationSaslFinal",
      "AuthenticationOk", "BackendKeyData", "ParameterStatus", "ReadyForQuery">>

\* C6: a run of start against the literal exchange ends in Ready and its
\* result exposes server_version = 16.0; in general every ParameterStatus
\* pair received while draining is exposed by a successful start.
SuccessfulStartExposesParameters ==
    /\ (script = LiteralExchange /\ Len(decoded) = Len(script)) =>
          /\ pc = "returned"
          /\ result.status = "Ok"
          /\ out = <<"StartupMessage", "SASLInitialResponse", "SASLResponse">>
    /\ (pc = "returned" /\ result.status = "Ok") =>
          \A i \in 1..Len(decoded) :
              decoded[i].type = "ParameterStatus" =>
                  decoded[i].data \in ConnectionParameters(result)

(***************************************************************************)
(* Claims about the relay server, checked under Spec.                      *)
(***************************************************************************)

\* C1: the relay is byte-transparent: at every point the bytes the server
\* has written to the stream are a prefix of the bytes it has read from the
\* paired TCP connection, and the bytes written to the TCP connection are a
\* prefix of the bytes read from the stream (nothing inserted, dropped,
\* reordered or duplicated).
RelayByteTransparent ==
    /\ IsPrefix(written["stream"], ReadFrom("tcp"))
    /\ IsPrefix(written["tcp"], ReadFrom("stream"))

\* the relayed part of what was written to the stream
Relayed(w) == IF IsPrefix(StreamPreamble, w) THEN Drop(w, Len(StreamPreamble)) ELSE w

NonWebTransportRejected ==
    (request # NoRequest /\
        (request.method # "CONNECT" \/ request.protocol # "WEB_TRANSPORT")) =>
      /\ task = "done"
      /\ outcome \in {ErrNotConnect, ErrNotWebTransport}
      /\ sessionAccepts = 0
      /\ h3Accepts = 1

\* C9 witness: a GET request that was rejected.
NonWebTransportWitness ==
    /\ request.method = "GET"
    /\ request.protocol = "WEB_TRANSPORT"
    /\ task = "done"
    /\ outcome = ErrNotConnect

\* C10: accept_bidirectional always resolves to a stream or to an error
\* value: when the next request is not a bidirectional stream the caller
\* gets the "unsupported" error, and the task never crashes.
AcceptBidirectionalResolves ==
    /\ outcome # "panic"
    /\ accepted \in {"Request", "None"} =>
          (task = "done" /\ outcome = ErrUnsupportedStream)

(***************************************************************************)
(* Further claims about the client, checked under ClientSpec.              *)
(***************************************************************************)
\* Err(JsValue::from("Connection closed")): the callers' arm for a decode()
\* that returned None
ErrConnectionClosed == ErrResult("Connection closed", <<>>)

\* C11: stream closure is fatal at every point of the handshake: once the
\* backend has closed the stream and the client's read has met the end of
\* the stream, start has returned the "Connection closed" error (it does not
\* wait for more), and start never returns a connection unless ReadyForQuery
\* was received.
StreamClosureFatal ==
    /\ eof => (pc = "returned" /\ result = ErrConnectionClosed)
    /\ (pc = "returned" /\ result.status = "Ok") =>
          (decoded # <<>> /\ decoded[Len(decoded)].type = "ReadyForQuery")

\* the handshake that makes a Connection ready: AuthenticationSASL, the
\* AuthenticationSASLContinue and AuthenticationSASLFinal that verify, in
\* this order, each answered by the client, and ReadyForQuery at the end
ReachedReady ==
    /\ Len(decoded) >= 4
    /\ decoded[1] = Meaning("AuthenticationSasl")
    /\ decoded[2] = Meaning("AuthenticationSaslContinue")
    /\ decoded[3] = Meaning("AuthenticationSaslFinal")
    /\ decoded[Len(decoded)] = Meaning("ReadyForQuery")
    /\ \A i \in 4..(Len(decoded) - 1) : decoded[i].type # "ReadyForQuery"
    /\ out = <<"StartupMessage", "SASLInitialResponse", "SASLResponse">>

\* C12: a channel cannot be used before Ready: start hands out a Connection
\* only in runs that received AuthenticationSASL, AuthenticationSASLContinue,
\* a verified AuthenticationSASLFinal and then ReadyForQuery; before it
\* returns there is no result, and every other return is an error.
ConnectionOnlyWhenReady ==
    /\ result.status = "Ok" => (pc = "returned" /\ ReachedReady)
    /\ pc # "returned" => result = NoResult
    /\ (pc = "returned" /\ ~ReachedReady) => result.status = "Err"

\* C12 witness: start returned a Connection after the whole handshake, with
\* session information drained before ReadyForQuery.
ConnectionOnlyWhenReadyWitness ==
    /\ pc = "returned"
    /\ result.status = "Ok"
    /\ ReachedReady
    /\ Len(decoded) >= 6

\* C20: decode() never issues a read while pending holds a complete message:
\* whenever a read is awaited, decode_pending returns None on pending; and a
\* decode() that starts with a complete message in pending returns it
\* without reading, so the messages of one chunk are all returned, in order.
DrainsBeforeReading ==
    /\ [](dec = "reading" => DecodePending(pending).kind = "None")
    /\ [][(DecodePending(pending).kind = "Some" /\ pc' # pc
            /\ result'.prefix # ErrTransport) =>
            /\ Len(decoded') > Len(decoded)
            /\ decoded'[Len(decoded) + 1] = DecodePending(pending).msg
            /\ wire' = wire]_vars

\* C20 witness: one chunk carried the rest of the exchange: while the client
\* awaits its write, pending holds two or more complete messages, and the
\* ones decoded so far are the ones the backend sent.
DrainsBeforeReadingWitness ==
    /\ pc = "w_response"
    /\ Len(DrainPending(pending).msgs) >= 2
    /\ Len(decoded) = 2
    /\ decoded[2] = Meaning(script[2])

(***************************************************************************)
(* Further claims about the connection task, checked under Spec.           *)
(***************************************************************************)
\* C14: at most one WebTransport session is created per connection: the
\* task takes one request from h3.accept() and calls
\* WebTransportSession::accept at most once, whatever it goes on to do.
SingleSessionPerConnection ==
    /\ sessionAccepts \in {0, 1}
    /\ h3Accepts \in {0, 1}
    /\ task \in {"wtaccept", "acceptbi", "greeting", "tcpconnect", "relay"} =>
          sessionAccepts = 1

\* C14 witness: a connection whose session was accepted and whose stream is
\* being relayed, with bytes copied.
SingleSessionWitness ==
    /\ sessionAccepts = 1
    /\ task = "relay"
    /\ written["tcp"] # <<>>

\* the errors Session::start returns before WebTransportSession::accept
ClosedEarlyErrors == {ErrQuic, ErrH3, ErrClosed}

\* C18: a connection that closes before the session is accepted (during
\* QUIC establishment, the HTTP/3 upgrade, or before the first request)
\* makes negotiation return an error value: the task ends with that error,
\* it does not crash, and no session, stream or upstream connection exists.
ClosedBeforeSessionIsError ==
    /\ (task = "done" /\ request = NoRequest) =>
          /\ outcome \in ClosedEarlyErrors
          /\ sessionAccepts = 0
          /\ accepted = "none"
          /\ tcpConnects = 0
    /\ outcome = "panic" => sessionAccepts = 1

\* C18 witness: the connection closed before its first request arrived.
ClosedBeforeSessionWitness ==
    /\ task = "done"
    /\ outcome = ErrClosed
    /\ h3Accepts = 1
    /\ request = NoRequest
    /\ sessionAccepts = 0

\* C19: when the upstream TCP connection cannot be opened, the relay returns
\* the error after exactly one connect attempt, and no byte of the stream is
\* copied to a TCP connection (nor read from the stream).
UpstreamFailureFatal ==
    /\ outcome = ErrUpstream =>
          /\ task = "done"
          /\ tcpConnects = 1
          /\ written["tcp"] = <<>>
          /\ transfer = [d \in Dirs |-> Running]
    /\ tcpConnects \in {0, 1}

\* C19 witness: the connect failed while the stream peer had sent bytes.
UpstreamFailureWitness ==
    /\ task = "done"
    /\ outcome = ErrUpstream
    /\ Len(sent["stream"]) >= 1
    /\ tcpConnects = 1

(***************************************************************************)
(* The client behind the relay, checked under TunnelSpec.                  *)
(***************************************************************************)
\* C13: the client handshake works through the relay: when the upstream
\* backend answers with the successful exchange, the first message the
\* client decodes is the backend's AuthenticationSASL, and once the client
\* has read all the bytes of the exchange, start has returned a ready
\* Connection (unless a read or a write of the transport failed).
HandshakeThroughRelay ==
    /\ decoded # <<>> => decoded[1] = Meaning("AuthenticationSasl")
    /\ (/\ script = SuccessfulExchange
        /\ wire = <<>>
        /\ pc \notin {"start", "w_startup", "w_initial", "w_response"}) =>
          /\ pc = "returned"
          /\ result.status = "Ok" \/ result.prefix = ErrTransport

(***************************************************************************)
(* Claims about the server's tasks, checked under ServerSpec.              *)
(***************************************************************************)
\* C15: within one session every bidirectional stream the client opens is
\* accepted and relayed to an upstream TCP connection of its own: a task
\* whose client opened k >= 2 streams does not end its work with fewer than
\* k streams accepted and k upstream connections opened.
EveryStreamRelayed ==
    \A c \in Conns :
        (ended[c] = "Ok" /\ opened[c] >= 2) =>
            (streams[c] = opened[c] /\ upstreams[c] = opened[c])

\* C16: failure isolation: the step in which one connection's task fails
\* (an error or a panic) changes nothing of any other connection and leaves
\* the listener running; a relay that has bytes to copy can copy them and
\* the listener can spawn the next connection, whatever became of the other
\* tasks.
FailureIsolated ==
    /\ [][\A c \in Conns :
            (ended[c] = "none" /\ ended'[c] \notin {"none", "Ok"}) =>
                /\ listening' = listening
                /\ \A k \in Conns \ {c} :
                      /\ phase'[k] = phase[k]
                      /\ ended'[k] = ended[k]
                      /\ streams'[k] = streams[k]
                      /\ upstreams'[k] = upstreams[k]
                      /\ copied'[k] = copied[k]]_vars
    /\ [](\A k \in Conns :
            /\ (phase[k] = "relaying" /\ copied[k] < MaxCopied) => ENABLED RelayCopies(k)
            /\ (phase[k] = "unborn" /\ \A j \in 1..(k - 1) : phase[j] # "unborn") =>
                  ENABLED Spawn(k))

\* C16 witness: one task panicked, and another connection's relay copied a
\* byte after that.
FailureIsolatedWitness ==
    \E c \in Conns, k \in Conns :
        /\ c # k
        /\ ended[c] = "panic"
        /\ k \in survived
        /\ copied[k] >= 1
        /\ phase[k] = "relaying"

(***************************************************************************)
(* The startup message round trip, checked under StartupSpec.              *)
(***************************************************************************)
\* a startup-message decoder: after the length and the protocol version,
\* pairs of null-terminated strings up to the zero byte that ends the list
RECURSIVE StartupPairs(_)
StartupPairs(bytes) ==
    IF bytes = <<>> \/ bytes[1] = 0 THEN <<>>
    ELSE LET k == FindNull(bytes)
             rest == Drop(bytes, k)
             v == FindNull(rest)
         IN IF k = 0 \/ v = 0 THEN <<>>
            ELSE <<(<<Take(bytes, k - 1), Take(rest, v - 1)>>)>>
                     \o StartupPairs(Drop(rest, v))

StartupDecode(bytes) ==
    IF Len(bytes) < 8 \/ ReadI32(bytes, 1) # Len(bytes) \/ ReadI32(bytes, 5) # 196608
    THEN <<>>
    ELSE StartupPairs(Drop(bytes, 8))

\* keys are not empty, and no key or value holds a zero byte
Representable(list) ==
    \A i \in 1..Len(list) :
        /\ list[i][1] # <<>>
        /\ ~HasNull(list[i][1])
        /\ ~HasNull(list[i][2])

\* C17 (as stated): for every ordered list of key/value parameters, the
\* startup message is encoded and parsing it back gives the same pairs in
\* the same order.
StartupRoundTrip ==
    startup.done => (startup.ok /\ StartupDecode(startup.bytes) = params)

\* C17 (amended): for every ordered list of key/value parameters whose keys
\* are not empty and whose keys and values hold no zero byte, the startup
\* message (length, protocol version, null-terminated pairs, no tag byte) is
\* encoded and parsing it back gives the same pairs in the same order.
StartupRoundTripRepresentable ==
    (startup.done /\ Representable(params)) =>
        /\ startup.ok
        /\ ReadI32(startup.bytes, 1) = Len(startup.bytes)
        /\ StartupDecode(startup.bytes) = params

\* C17 witness: a list of two pairs, one with an empty value, was encoded
\* and parsed back.
StartupRoundTripWitness ==
    /\ startup.done
    /\ startup.ok
    /\ Len(params) = 2
    /\ params[1][2] = <<>>
    /\ Representable(params)
    /\ StartupDecode(startup.bytes) = params

(***************************************************************************)
(* The order of the handshake, checked under ClientSpec.                   *)
(***************************************************************************)
FrontendOrder == <<"StartupMessage", "SASLInitialResponse", "SASLResponse">>

\* the writes that have completed when the read at `at` is issued
WritesBefore(at) ==
    CASE at = "auth" -> 1
      [] at = "continue" -> 2
      [] at \in {"final", "drain"} -> 3

\* C21: the messages the client has written are a prefix of startup message,
\* SASL initial response, SASL response; nothing is read before the startup
\* message is written; the SASL initial response is written only after
\* AuthenticationSASL was decoded and the SASL response only after
\* AuthenticationSASLContinue was; a read is issued only when the write
\* before it has completed; nothing is written after the SASL response.
HandshakeOrder ==
    /\ IsPrefix(out, FrontendOrder)
    /\ out = <<>> => (dec = "idle" /\ decoded = <<>> /\ pending = <<>>)
    /\ (Len(out) >= 2 \/ pc = "w_initial") =>
          (decoded # <<>> /\ decoded[1].type = "AuthenticationSasl")
    /\ (Len(out) >= 3 \/ pc = "w_response") =>
          (Len(decoded) >= 2 /\ decoded[2].type = "AuthenticationSaslContinue")
    /\ dec = "reading" =>
          /\ pc \in {"auth", "continue", "final", "drain"}
          /\ Len(out) = WritesBefore(pc)

\* C21 witness: the three messages are written and the client reads on.
HandshakeOrderWitness ==
    /\ out = FrontendOrder
    /\ dec = "reading"
    /\ pc = "final"
    /\ Len(decoded) = 2

\* a read or a write of the client resolves
ClientIO == WriteDone \/ WriteFail \/ ReadChunk \/ ReadEof \/ ReadFail

\* C22: no retry and no continuation after a failure: once start has met an
\* unexpected message, a parse failure, a SCRAM verification failure or the
\* end of the stream, the client has no read and no write outstanding on the
\* channel (none can resolve any more).
NoContinuationAfterFailure ==
    (eof \/ (pc = "returned" /\ result.status = "Err")) => ~ENABLED ClientIO

\* position of each await of start in the handshake
Stage(at) ==
    CASE at = "start" -> 0
      [] at = "w_startup" -> 1
      [] at = "auth" -> 2
      [] at = "w_initial" -> 3
      [] at = "continue" -> 4
      [] at = "w_response" -> 5
      [] at = "final" -> 6
      [] at = "drain" -> 7
      [] at = "returned" -> 8

\* C23: the handshake only moves forward (Start, Auth, SaslContinue,
\* SaslFinal, DrainingSessionInfo, then Ready or Failed): no step takes start
\* back to a state it has left, the state start returned in is final, and
\* the only state kept across a received message is the draining one, on
\* BackendKeyData, ParameterStatus and AuthenticationOk.
HandshakeForwardOnly ==
    /\ [][Stage(pc') >= Stage(pc)]_vars
    /\ [][pc = "returned" => (pc' = pc /\ result' = result)]_vars
    /\ [][(Len(decoded') > Len(decoded) /\ pc' = pc) =>
            /\ pc = "drain"
            /\ \A i \in (Len(decoded) + 1)..Len(decoded') :
                  decoded'[i].type \in {"BackendKeyData", "ParameterStatus",
                                         "AuthenticationOk"}]_vars

\* C23 witness: the draining state was kept across session information.
HandshakeForwardWitness ==
    /\ pc = "drain"
    /\ dec = "reading"
    /\ Len(decoded) >= 5
    /\ decoded[Len(decoded)].type \in {"BackendKeyData", "ParameterStatus"}

\* C24: only AuthenticationSASL is accepted as the first backend message:
\* any other first message makes start fail with the unsupported-method
\* error, the end of the stream before a first message makes it fail with
\* the connection-closed error, and in both cases no SASL initial response
\* is sent.
OnlySaslAcceptedFirst ==
    /\ (decoded # <<>> /\ decoded[1].type # "AuthenticationSasl") =>
          /\ pc = "returned"
          /\ result = ErrResult("Unsupported backend message type", <<>>)
          /\ out = <<"StartupMessage">>
    /\ (eof /\ decoded = <<>>) =>
          /\ pc = "returned"
          /\ result = ErrConnectionClosed
          /\ out = <<"StartupMessage">>

\* the bytes the client has read from the stream so far
Received == Take(Flatten(script), Len(Flatten(script)) - Len(wire))

\* the bytes of the messages decode() has returned
ReturnedBytes == Len(Flatten(SubSeq(script, 1, Len(decoded))))

\* the bytes of the frame decode_pending split off and Message::parse refused
RefusedBytes ==
    IF result = ErrResult("Error parsing the next message from the backend", <<>>)
    THEN Len(Wire(script[Len(decoded) + 1]))
    ELSE 0

\* C25 (as stated): pending is the bytes of all chunks read so far, in order,
\* with the bytes of the messages already returned removed from its front.
PendingIsWindowOfReturned == pending = Drop(Received, ReturnedBytes)

\* C25 (amended): pending is the bytes of all chunks read so far, in order,
\* with the bytes of the frames decode_pending has taken removed from its
\* front: those of every message returned and those of a frame it split off
\* and failed to parse.
PendingIsWindow == pending = Drop(Received, ReturnedBytes + RefusedBytes)

\* C25 witness: in the middle of the stream, with messages returned, bytes
\* of the next message in pending and more bytes to come.
PendingIsWindowWitness ==
    /\ Len(decoded) >= 2
    /\ pending # <<>>
    /\ wire # <<>>
    /\ dec = "reading"
    /\ pending = Drop(Received, ReturnedBytes)

(***************************************************************************)
(* Connections do not wait for each other, checked under ServerSpec.       *)
(***************************************************************************)
\* the points a connection task can be suspended at
Suspended == {"negotiating", "accepting", "connecting", "relaying"}

\* C26: no connection blocks another: whatever point the other connections
\* are suspended at, the listener can take the next connection attempt, and
\* a connection can complete each step of its own: its negotiation, its
\* stream accept once its client opened a stream, its TCP connect, and its
\* relay's copies.
NoConnectionBlocksAnother ==
    \A k \in Conns :
        /\ (phase[k] = "unborn" /\ \A j \in 1..(k - 1) : phase[j] # "unborn") =>
              ENABLED (Spawn(k) /\ phase'[k] = "negotiating")
        /\ phase[k] = "negotiating" =>
              ENABLED (SessionStarted(k) /\ phase'[k] = "accepting")
        /\ (phase[k] = "accepting" /\ opened[k] < MaxStreams) =>
              ENABLED StreamOpened(k)
        /\ (phase[k] = "accepting" /\ opened[k] > streams[k]) =>
              ENABLED (StreamAccepted(k) /\ phase'[k] = "connecting")
        /\ phase[k] = "connecting" =>
              ENABLED (UpstreamConnected(k) /\ phase'[k] = "relaying")
        /\ (phase[k] = "relaying" /\ copied[k] < MaxCopied) =>
              ENABLED (RelayCopies(k) /\ copied'[k] = copied[k] + 1)

\* C26 witness: the first connection is still suspended in its negotiation
\* while the later one has negotiated and relayed a byte.
NoConnectionBlocksWitness ==
    /\ phase[1] = "negotiating"
    /\ phase[2] = "relaying"
    /\ copied[2] >= 1
    /\ ended[1] = "none"

(***************************************************************************)
(* The upstream connection is opened last, checked under Spec.             *)
(***************************************************************************)
\* the ways a task ends before accept_bidirectional has a stream
NegotiationFailures ==
    {ErrQuic, ErrH3, ErrClosed, ErrNotConnect, ErrNotWebTransport,
     ErrUnsupportedStream, "panic"}

\* C28: no upstream TCP connection is opened unless the WebTransport session
\* was negotiated (one CONNECT request with WEB_TRANSPORT, accepted) and a
\* bidirectional stream was accepted on it: the connect happens after both
\* and is never reached by a task that failed at either.
UpstreamOnlyAfterNegotiation ==
    /\ (tcpConnects >= 1 \/ task \in {"tcpconnect", "relay"}) =>
          /\ h3Accepts = 1
          /\ request = [method |-> "CONNECT", protocol |-> "WEB_TRANSPORT"]
          /\ sessionAccepts = 1
          /\ accepted = "BidiStream"
    /\ outcome \in NegotiationFailures => tcpConnects = 0
    /\ [][tcpConnects' > tcpConnects =>
            (sessionAccepts = 1 /\ accepted = "BidiStream")]_vars

\* C28 witness: the task is at its TCP connect, after a CONNECT request for
\* WEB_TRANSPORT and a bidirectional stream.
UpstreamOnlyAfterNegotiationWitness ==
    /\ task = "tcpconnect"
    /\ tcpConnects = 1
    /\ request = [method |-> "CONNECT", protocol |-> "WEB_TRANSPORT"]
    /\ accepted = "BidiStream"

(***************************************************************************)
(* The authenticate of run(), checked under AuthSpec.                      *)
(***************************************************************************)
\* C27: authenticate reports success only after ReadyForQuery has been
\* received: when it returns the session info, the last message it took
\* from the stream is ReadyForQuery, after AuthenticationSASLFinal and the
\* BackendKeyData, ParameterStatus and AuthenticationOk messages before it.
SuccessOnlyAfterReady ==
    session.status = "Ok" =>
        /\ parsed # <<>>
        /\ parsed[Len(parsed)].type = "ReadyForQuery"

====
